---- MODULE Spec2Model ----
(***************************************************************************)
(* Wiki-material retrieval pipeline of tools/wiki_get_material.py:         *)
(* the markup cleaner, the section parser, the character budget and the    *)
(* source cascade of wiki_get_material.                                    *)
(*                                                                         *)
(* A text is a sequence of characters; a character is a one-character      *)
(* string.  The namespace words of the media and category patterns are     *)
(* carried as single alphabet elements ("File", "Category").               *)
(***************************************************************************)
EXTENDS Integers, Sequences, FiniteSets, TLC

VARIABLES
    pc,          \* position of the wiki_get_material coroutine
    language,    \* argument language
    topic,       \* argument topic
    max_chars,   \* argument max_chars
    sources,     \* local list sources (line 265)
    i,           \* index of the source the for loop is at (1-based)
    source_urls, \* local list source_urls
    searchResp,  \* per source: the HTTP response its search got (or NoResp)
    fetchResp,   \* per source: the HTTP response its fetch got (or NoResp)
    calls,       \* the external calls issued so far, in order
    ret,         \* None, or the payload returned
    cancelled,   \* the task running the call has been cancelled
    ptext,       \* argument text of a direct _parse_sections call
    pout,        \* None, or the result of that call
    bdoc,        \* argument result of a direct _apply_max_chars call
    bmax,        \* argument max_chars of that call
    bout,        \* None, or the result of that call
    tcontent,    \* argument content of a direct _truncate_content call
    tn,          \* argument max_chars of that call
    tout,        \* None, or the result of that call
    ctext,       \* argument text of a direct _clean_wiki_text call
    cout,        \* None, or the result of that call
    wiki,        \* the module-level dict WIKI_SOURCES, shared by all calls
    task,        \* per concurrent call: its arguments, locals and position
    heap         \* the list and dict objects the concurrent calls created

vars == <<pc, language, topic, max_chars, sources, i, source_urls,
          searchResp, fetchResp, calls, ret, cancelled, ptext, pout,
          bdoc, bmax, bout, tcontent, tn, tout, ctext, cout,
          wiki, task, heap>>

cascadeVars == <<pc, language, topic, max_chars, sources, i, source_urls,
                 searchResp, fetchResp, calls, ret, cancelled>>

parseVars == <<ptext, pout>>

budgetVars == <<bdoc, bmax, bout>>

truncVars == <<tcontent, tn, tout>>

cleanVars == <<ctext, cout>>

\* The variables of the direct calls of the helpers.
directVars == <<parseVars, budgetVars, truncVars, cleanVars>>

\* The variables of the calls that run concurrently.
concVars == <<wiki, task, heap>>

\* Python's None and an Optional value that is present.
None == <<>>

Some(v) == <<v>>

----------------------------------------------------------------------------
(* Characters and elementary string operations                             *)

NL == "\n"

SP == " "

\* The characters str.strip() removes and \s matches.
Whitespace == {SP, NL}

FileNamespaces == {"File"}

CategoryNamespaces == {"Category"}

\* The character at position p, or "" past either end of the text.
At(text, p) == IF p \in 1..Len(text) THEN text[p] ELSE ""

\* text[p:] of Python, for a 1-based p.
From(text, p) == SubSeq(text, p, Len(text))

RECURSIVE RunEnd(_, _, _)
\* First position at or after p whose character is in Stop (or the end):
\* where a greedy negated class [^...]+ started at p stops.
RunEnd(text, p, Stop) ==
    IF p <= Len(text) /\ text[p] \notin Stop
    THEN RunEnd(text, p + 1, Stop)
    ELSE p

RECURSIVE SameEnd(_, _, _)
\* First position at or after p whose character is not c: the end of c{n,}.
SameEnd(text, p, c) ==
    IF p <= Len(text) /\ text[p] = c
    THEN SameEnd(text, p + 1, c)
    ELSE p

RECURSIVE LStrip(_)
LStrip(text) ==
    IF text # <<>> /\ Head(text) \in Whitespace THEN LStrip(Tail(text)) ELSE text

RECURSIVE RStrip(_)
RStrip(text) ==
    IF text # <<>> /\ text[Len(text)] \in Whitespace
    THEN RStrip(SubSeq(text, 1, Len(text) - 1))
    ELSE text

\* str.strip()
Strip(text) == RStrip(LStrip(text))

RECURSIVE Join(_, _)
\* sep.join(parts) for a one-character separator
Join(parts, sep) ==
    IF parts = <<>> THEN <<>>
    ELSE IF Len(parts) = 1 THEN parts[1]
    ELSE parts[1] \o <<sep>> \o Join(Tail(parts), sep)

RECURSIVE Split(_, _)
\* text.split(sep): always at least one part
Split(text, sep) ==
    LET e == RunEnd(text, 1, {sep})
    IN  IF e > Len(text) THEN <<text>>
        ELSE <<SubSeq(text, 1, e - 1)>> \o Split(From(text, e + 1), sep)

----------------------------------------------------------------------------
(* _clean_wiki_text                                                        *)

NoMatch == [end |-> 0, repl |-> <<>>]

\* "[[" at p, then the rest of a media or category reference:
\* \[\[(?:ns):[^\]]+\]\]  ->  ''
MatchNamespace(text, p, Namespaces) ==
    LET q == RunEnd(text, p + 4, {"]"})
    IN  IF /\ At(text, p) = "[" /\ At(text, p + 1) = "["
           /\ At(text, p + 2) \in Namespaces
           /\ At(text, p + 3) = ":"
           /\ q > p + 4
           /\ At(text, q) = "]" /\ At(text, q + 1) = "]"
        THEN [end |-> q + 2, repl |-> <<>>]
        ELSE NoMatch

\* A piped-link pattern whose group is the text after the last pipe.
MatchPipedLinkLast(text, p) ==
    LET a == RunEnd(text, p + 2, {"|", "]"})
        b == RunEnd(text, a + 1, {"]"})
    IN  IF /\ At(text, p) = "[" /\ At(text, p + 1) = "["
           /\ a > p + 2
           /\ At(text, a) = "|"
           /\ b > a + 1
           /\ At(text, b) = "]" /\ At(text, b + 1) = "]"
        THEN LET l == CHOOSE l \in a..(b - 1) :
                          /\ text[l] = "|"
                          /\ \A k \in (l + 1)..(b - 1) : text[k] # "|"
             IN  [end |-> b + 2, repl |-> SubSeq(text, l + 1, b - 1)]
        ELSE NoMatch

\* \[\[[^\|\]]+\|([^\]]+)\]\]  ->  \1
MatchPipedLink(text, p) ==
    LET a == RunEnd(text, p + 2, {"|", "]"})
        b == RunEnd(text, a + 1, {"]"})
    IN  IF /\ At(text, p) = "[" /\ At(text, p + 1) = "["
           /\ a > p + 2
           /\ At(text, a) = "|"
           /\ b > a + 1
           /\ At(text, b) = "]" /\ At(text, b + 1) = "]"
        THEN [end |-> b + 2, repl |-> SubSeq(text, a + 1, b - 1)]
        ELSE NoMatch

\* \[\[([^\]]+)\]\]  ->  \1
MatchLink(text, p) ==
    LET b == RunEnd(text, p + 2, {"]"})
    IN  IF /\ At(text, p) = "[" /\ At(text, p + 1) = "["
           /\ b > p + 2
           /\ At(text, b) = "]" /\ At(text, b + 1) = "]"
        THEN [end |-> b + 2, repl |-> SubSeq(text, p + 2, b - 1)]
        ELSE NoMatch

\* \{\{[^}]+\}\}  ->  ''
MatchTemplate(text, p) ==
    LET b == RunEnd(text, p + 2, {"}"})
    IN  IF /\ At(text, p) = "{" /\ At(text, p + 1) = "{"
           /\ b > p + 2
           /\ At(text, b) = "}" /\ At(text, b + 1) = "}"
        THEN [end |-> b + 2, repl |-> <<>>]
        ELSE NoMatch

\* A tag pattern that also takes an unclosed tag, up to the end of the text.
MatchTagUnclosed(text, p) ==
    LET b == RunEnd(text, p + 1, {">"})
    IN  IF At(text, p) = "<" /\ b > p + 1
        THEN [end |-> IF At(text, b) = ">" THEN b + 1 ELSE b, repl |-> <<>>]
        ELSE NoMatch

\* <[^>]+>  ->  ''
MatchTag(text, p) ==
    LET b == RunEnd(text, p + 1, {">"})
    IN  IF /\ At(text, p) = "<"
           /\ b > p + 1
           /\ At(text, b) = ">"
        THEN [end |-> b + 1, repl |-> <<>>]
        ELSE NoMatch

\* \n{3,}  ->  '\n\n'
MatchNewlines(text, p) ==
    LET e == SameEnd(text, p, NL)
    IN  IF e - p >= 3 THEN [end |-> e, repl |-> <<NL, NL>>] ELSE NoMatch

\* ' {2,}'  ->  ' '
MatchSpaces(text, p) ==
    LET e == SameEnd(text, p, SP)
    IN  IF e - p >= 2 THEN [end |-> e, repl |-> <<SP>>] ELSE NoMatch

\* The match of one of the eight patterns that starts at position p.
Match(rule, text, p) ==
    CASE rule = "file"      -> MatchNamespace(text, p, FileNamespaces)
      [] rule = "category"  -> MatchNamespace(text, p, CategoryNamespaces)
      [] rule = "pipedlink" -> MatchPipedLink(text, p)
      [] rule = "link"      -> MatchLink(text, p)
      [] rule = "template"  -> MatchTemplate(text, p)
      [] rule = "tag"       -> MatchTag(text, p)
      [] rule = "newlines"  -> MatchNewlines(text, p)
      [] rule = "spaces"    -> MatchSpaces(text, p)

RECURSIVE ReSubFrom(_, _, _)
\* re.sub from position p on: leftmost matches, left to right, not overlapping.
ReSubFrom(rule, text, p) ==
    IF p > Len(text) THEN <<>>
    ELSE LET m == Match(rule, text, p)
         IN  IF m.end > 0
             THEN m.repl \o ReSubFrom(rule, text, m.end)
             ELSE <<text[p]>> \o ReSubFrom(rule, text, p + 1)

ReSub(rule, text) == ReSubFrom(rule, text, 1)

\* A cleaner that normalises the whitespace before it removes the markup.
CleanWhitespaceFirst(text) ==
    LET t1 == ReSub("newlines", text)
        t2 == ReSub("spaces", t1)
        t3 == ReSub("file", t2)
        t4 == ReSub("category", t3)
        t5 == ReSub("pipedlink", t4)
        t6 == ReSub("link", t5)
        t7 == ReSub("template", t6)
        t8 == ReSub("tag", t7)
    IN  Strip(t8)

_clean_wiki_text(text) ==
    LET t1 == ReSub("file", text)
        t2 == ReSub("category", t1)
        t3 == ReSub("pipedlink", t2)
        t4 == ReSub("link", t3)
        t5 == ReSub("template", t4)
        t6 == ReSub("tag", t5)
        t7 == ReSub("newlines", t6)
        t8 == ReSub("spaces", t7)
    IN  Strip(t8)

----------------------------------------------------------------------------
(* _parse_sections                                                         *)

RECURSIVE TrailingRun(_, _)
\* Length of the run of character c that ends the line.
TrailingRun(line, c) ==
    IF line # <<>> /\ line[Len(line)] = c
    THEN 1 + TrailingRun(SubSeq(line, 1, Len(line) - 1), c)
    ELSE 0

\* What is between the opening and the closing run of '=' of a line.
HeadingMiddle(line) ==
    SubSeq(line, SameEnd(line, 1, "="), Len(line) - TrailingRun(line, "="))

\* re.match(r'^==+\s*([^=]+?)\s*==+$', line): two or more '=', a non-empty
\* middle without '=', two or more '=' up to the end of the line.
IsHeading(line) ==
    LET a == SameEnd(line, 1, "=") - 1
        b == TrailingRun(line, "=")
    IN  /\ a >= 2
        /\ b >= 2
        /\ a + b < Len(line)
        /\ \A k \in (a + 1)..(Len(line) - b) : line[k] # "="

\* match.group(1).strip(): the lazy group between two greedy \s* is the
\* middle without its outer whitespace (its last character when the middle
\* is all whitespace), and strip() removes what is left of it.
HeadingTitle(line) == Strip(HeadingMiddle(line))

\* Lines 155-161 and 174-180: close the open section, keep it when its
\* cleaned content is non-empty.
CloseSectionAlways(sections, current) ==
    IF current = None THEN sections
    ELSE Append(sections,
                [title   |-> current[1].title,
                 content |-> _clean_wiki_text(Join(current[1].lines, NL))])

KeepSectionFirst(sections, title, content) ==
    IF Strip(content) # <<>>
    THEN <<[title |-> title, content |-> content]>> \o sections
    ELSE sections

\* if current_section["content"].strip(): sections.append(current_section)
KeepSection(sections, title, content) ==
    IF Strip(content) # <<>>
    THEN Append(sections, [title |-> title, content |-> content])
    ELSE sections

CloseSection(sections, current) ==
    IF current = None THEN sections
    ELSE KeepSection(sections, current[1].title,
                     _clean_wiki_text(Join(current[1].lines, NL)))

\* The state of the loop before its first line (lines 144-148).
ParseStart ==
    [sections |-> <<>>, current |-> None, summary_lines |-> <<>>,
     in_summary |-> TRUE]

ParseLineKeepSummary(st, line) ==
    IF IsHeading(line)
    THEN [st EXCEPT !.sections = CloseSection(st.sections, st.current),
                    !.current = Some([title |-> HeadingTitle(line),
                                      lines |-> <<>>])]
    ELSE IF st.in_summary
         THEN [st EXCEPT !.summary_lines = Append(@, line)]
         ELSE IF st.current # None
              THEN [st EXCEPT !.current =
                        Some([@[1] EXCEPT !.lines = Append(@, line)])]
              ELSE st

\* One pass of the loop body (lines 151-171).
ParseLine(st, line) ==
    IF IsHeading(line)
    THEN [st EXCEPT !.in_summary = FALSE,
                    !.sections = CloseSection(st.sections, st.current),
                    !.current = Some([title |-> HeadingTitle(line),
                                      lines |-> <<>>])]
    ELSE IF st.in_summary
         THEN [st EXCEPT !.summary_lines = Append(@, line)]
         ELSE IF st.current # None
              THEN [st EXCEPT !.current =
                        Some([@[1] EXCEPT !.lines = Append(@, line)])]
              ELSE st

RECURSIVE ParseLoop(_, _, _)
\* for line in lines (line 150), from line k on
ParseLoop(lines, k, st) ==
    IF k > Len(lines) THEN st
    ELSE ParseLoop(lines, k + 1, ParseLine(st, lines[k]))

\* After the loop: the last section and the summary (lines 173-187).
ParseResult(st) ==
    [summary  |-> _clean_wiki_text(Join(st.summary_lines, NL)),
     sections |-> CloseSection(st.sections, st.current)]

_parse_sections(text, title) ==
    IF text = <<>> THEN [summary |-> <<>>, sections |-> <<>>]
    ELSE ParseResult(ParseLoop(Split(text, NL), 1, ParseStart))

----------------------------------------------------------------------------
(* _truncate_content and _apply_max_chars                                  *)

Ellipsis == <<".", ".", ".">>

Max(a, b) == IF a >= b THEN a ELSE b

\* str.rfind(c): 0-based index of the last c, -1 when there is none
RFind(text, c) ==
    IF \A k \in 1..Len(text) : text[k] # c THEN -1
    ELSE (CHOOSE k \in 1..Len(text) :
              /\ text[k] = c
              /\ \A j \in (k + 1)..Len(text) : text[j] # c) - 1

RECURSIVE FloorPow2(_)
\* The largest power of two that is at most v, for v >= 1.
FloorPow2(v) == IF v < 2 THEN 1 ELSE 2 * FloorPow2(v \div 2)

\* The double n * 0.7 lies below the exact 7n/10 just when 7n/10 is an
\* integer of at least 32 in the upper eighth of its binade.
ProductRoundsBelow(n) ==
    /\ n % 10 = 0
    /\ n > 0
    /\ LET v == (7 * n) \div 10
           P == FloorPow2(v)
       IN  P >= 32 /\ 8 * v > 14 * P

\* cut_point > max_chars * 0.7 in double arithmetic (line 60)
PastSeventyPercent(cut_point, n) ==
    IF ProductRoundsBelow(n)
    THEN 10 * cut_point >= 7 * n
    ELSE 10 * cut_point > 7 * n

\* A truncation that leaves a text with no suitable separator whole.
TruncateAtSeparatorOnly(content, n) ==
    IF Len(content) <= n THEN content
    ELSE LET truncated == SubSeq(content, 1, n)
             cut_point == Max(RFind(truncated, SP), RFind(truncated, NL))
         IN  IF PastSeventyPercent(cut_point, n)
             THEN SubSeq(truncated, 1, cut_point) \o Ellipsis
             ELSE content

_truncate_content(content, n) ==
    IF Len(content) <= n THEN content
    ELSE LET truncated == SubSeq(content, 1, n)
             cut_point == Max(RFind(truncated, SP), RFind(truncated, NL))
         IN  IF PastSeventyPercent(cut_point, n)
             THEN SubSeq(truncated, 1, cut_point) \o Ellipsis
             ELSE truncated \o Ellipsis

RECURSIVE SumContent(_)
SumContent(sections) ==
    IF sections = <<>> THEN 0
    ELSE Len(sections[1].content) + SumContent(Tail(sections))

\* A summary share of half the budget.
SummaryShareHalf(n) == n \div 2

\* int(remaining_chars * 0.4) and len(summary) > remaining_chars * 0.4
\* (lines 205-208); both agree with exact arithmetic up to 200000.
SummaryShare(n) == (4 * n) \div 10

\* The budget with the test of line 197 as a strict one.
ApplyMaxCharsStrict(result, n) ==
    IF Len(result.summary) + SumContent(result.sections) < n THEN result
    ELSE LET summary ==
                 IF result.summary # <<>> /\ 10 * Len(result.summary) > 4 * n
                 THEN _truncate_content(result.summary, SummaryShare(n))
                 ELSE result.summary
             remaining_chars == n - Len(summary)
             count == Len(result.sections)
             chars_per_section == remaining_chars \div count
         IN  [result EXCEPT
                !.summary = summary,
                !.sections =
                    IF count > 0 /\ remaining_chars > 0
                    THEN [k \in 1..count |->
                            IF Len(@[k].content) > chars_per_section
                            THEN [@[k] EXCEPT !.content =
                                    _truncate_content(@, chars_per_section)]
                            ELSE @[k]]
                    ELSE @]

\* A budget that gives up the last section of a document over it.
ApplyMaxCharsDropLast(result, n) ==
    IF Len(result.summary) + SumContent(result.sections) <= n THEN result
    ELSE [result EXCEPT
            !.summary = IF 10 * Len(@) > 4 * n
                        THEN _truncate_content(@, SummaryShare(n)) ELSE @,
            !.sections = SubSeq(@, 1, Len(@) - 1)]

\* A budget that hands what the short sections leave of their shares to
\* the long ones.
ApplyMaxCharsRedistribute(result, n) ==
    IF Len(result.summary) + SumContent(result.sections) <= n THEN result
    ELSE LET summary ==
                 IF result.summary # <<>> /\ 10 * Len(result.summary) > 4 * n
                 THEN _truncate_content(result.summary, SummaryShare(n))
                 ELSE result.summary
             remaining_chars == n - Len(summary)
             count == Len(result.sections)
             short == { k \in 1..count :
                          Len(result.sections[k].content)
                              <= remaining_chars \div count }
             slack == remaining_chars
                        - SumContent(SelectSeq(result.sections,
                              LAMBDA x : Len(x.content)
                                            <= remaining_chars \div count))
             chars_per_section ==
                 IF Cardinality(short) = count THEN remaining_chars \div count
                 ELSE slack \div (count - Cardinality(short))
         IN  [result EXCEPT
                !.summary = summary,
                !.sections =
                    IF count > 0 /\ remaining_chars > 0
                    THEN [k \in 1..count |->
                            IF Len(@[k].content) > chars_per_section
                            THEN [@[k] EXCEPT !.content =
                                    _truncate_content(@, chars_per_section)]
                            ELSE @[k]]
                    ELSE @]

_apply_max_chars(result, n) ==
    IF Len(result.summary) + SumContent(result.sections) <= n THEN result
    ELSE LET summary ==
                 IF result.summary # <<>> /\ 10 * Len(result.summary) > 4 * n
                 THEN _truncate_content(result.summary, SummaryShare(n))
                 ELSE result.summary
             remaining_chars == n - Len(summary)
             count == Len(result.sections)
             chars_per_section == remaining_chars \div count
         IN  [result EXCEPT
                !.summary = summary,
                !.sections =
                    IF count > 0 /\ remaining_chars > 0
                    THEN [k \in 1..count |->
                            IF Len(@[k].content) > chars_per_section
                            THEN [@[k] EXCEPT !.content =
                                    _truncate_content(@, chars_per_section)]
                            ELSE @[k]]
                    ELSE @]

----------------------------------------------------------------------------
(* The texts of the model                                                  *)

\* Extracts a wiki page may carry besides the empty one: an introduction
\* only, markup that cleans to nothing, a heading over such markup, and a
\* heading over text.
Extracts ==
    { <<"a">>,
      <<"{", "{", "a", "}", "}">>,
      <<"=", "=", "a", "=", "=", NL, "{", "{", "a", "}", "}">>,
      <<"=", "=", "a", "=", "=", NL, "a", SP, "b">> }

\* Lines of the texts handed to a direct _parse_sections call: empty, text,
\* blank, a heading, a deeper heading with spaces, a template, a heading
\* with a blank title, a line with an unfinished closing marker.
ParseLines ==
    { <<>>,
      <<"a">>,
      <<SP>>,
      <<"=", "=", "a", "=", "=">>,
      <<"=", "=", "=", SP, "b", SP, "=", "=", "=">>,
      <<"{", "{", "a", "}", "}">>,
      <<"=", "=", SP, "=", "=">>,
      <<"=", "=", "a", "=">> }

\* The longest text of the parse specification, in lines.
MaxLines == 4

ParseTexts ==
    {Join(ls, NL) : ls \in UNION {[1..n -> ParseLines] : n \in 0..MaxLines}}

----------------------------------------------------------------------------
(* The external wikis: what one HTTP request of a helper can end in        *)

WIKI_SOURCES ==
    [ru |-> << [name |-> "wikibooks", url |-> "ru.wikibooks.org"],
               [name |-> "wikipedia", url |-> "ru.wikipedia.org"] >>,
     en |-> << [name |-> "wikibooks", url |-> "en.wikibooks.org"],
               [name |-> "vikidia",   url |-> "en.vikidia.org"],
               [name |-> "wikipedia", url |-> "en.wikipedia.org"] >>]

\* Values of the arguments: two supported languages and one that is not.
Languages == {"ru", "en", "de"}

Topics == {"cats", "dogs"}

\* ge=500 of the max_chars field (line 231)
MinMaxChars == 500

Titles == {"Cat", "Felis"}

\* client.get / raise_for_status / response.json() of _search_wiki
SearchResponses ==
    {[kind |-> "timeout"], [kind |-> "transport_error"], [kind |-> "http_error"]}
    \cup {[kind |-> "ok", search |-> <<>>]}
    \cup {[kind |-> "ok", search |-> <<[title |-> t, pageid |-> 1]>>] : t \in Titles}

\* A dict value that may be absent: page.get(key, "")
Get(field, default) == IF field = None THEN default ELSE field[1]

\* client.get / raise_for_status / response.json() of _get_article_content,
\* asked for `title` at the wiki `api_url`
FetchResponses(api_url, title) ==
    {[kind |-> "timeout"], [kind |-> "http_error"]}
    \cup {[kind |-> "ok", pages |-> <<>>]}
    \cup {[kind |-> "ok", pages |-> <<[missing |-> TRUE]>>]}
    \cup {[kind |-> "ok",
           pages |-> <<[missing |-> FALSE, title |-> Some(title),
                        extract |-> e, fullurl |-> u]>>] :
            e \in {None, Some(<<>>)} \cup {Some(x) : x \in Extracts},
            u \in {None, Some(<<api_url, title>>)}}

\* _search_wiki: the first search result, None for no result and for every
\* exception (lines 76-91)
_search_wiki(resp) ==
    IF resp.kind = "ok" /\ resp.search # <<>>
    THEN Some([title |-> resp.search[1].title, pageid |-> resp.search[1].pageid])
    ELSE None

\* _get_article_content: the first page, None for no page, a missing page
\* and every exception (lines 107-132)
_get_article_content(resp) ==
    IF resp.kind # "ok" THEN None
    ELSE IF resp.pages = <<>> THEN None
    ELSE IF resp.pages[1].missing THEN None
    ELSE Some([title   |-> Get(resp.pages[1].title, ""),
               extract |-> Get(resp.pages[1].extract, <<>>),
               url     |-> Get(resp.pages[1].fullurl, "")])

----------------------------------------------------------------------------
(* wiki_get_material                                                       *)

UnsupportedLanguage(lang, t) ==
    [error |-> <<"unsupported language", lang>>, topic |-> t]

NotFoundFirstOnly(srcs, t) ==
    [error |-> <<"not found", t>>, topic |-> t,
     searched_sources |-> <<srcs[1].name>>]

\* A not-found payload that tells how the search of each source ended.
NotFoundWithReasons(srcs, t) ==
    [error |-> <<"not found", t>>, topic |-> t,
     searched_sources |->
        [k \in 1..Len(srcs) |->
            <<srcs[k].name,
              IF k <= Len(searchResp) /\ searchResp[k] # None
              THEN searchResp[k][1].kind ELSE "pending">>]]

\* The payload of lines 310-314
NotFound(srcs, t) ==
    [error |-> <<"not found", t>>, topic |-> t,
     searched_sources |-> [k \in 1..Len(srcs) |-> srcs[k].name]]

UsableSummaryOnly(parsed) == parsed.summary # <<>>

UsableAlways(parsed) == TRUE

\* if parsed["summary"] or parsed["sections"] (line 285)
Usable(parsed) == parsed.summary # <<>> \/ parsed.sections # <<>>

\* return <payload>
Return(payload) ==
    /\ ret' = Some(payload)
    /\ pc' = "done"

TrySourceNoFinalReturn(j, srcs) ==
    IF j > Len(srcs)
    THEN /\ ret' = None
         /\ pc' = "done"
         /\ UNCHANGED <<i, calls>>
    ELSE /\ i' = j
         /\ calls' = Append(calls, [op |-> "search", source |-> j, arg |-> topic])
         /\ pc' = "search"
         /\ UNCHANGED ret

\* The head of the loop for source j (lines 269-272): the search of source
\* j is issued, or the loop is over and the not-found payload is returned.
TrySource(j, srcs) ==
    IF j > Len(srcs)
    THEN /\ Return(NotFound(srcs, topic))
         /\ UNCHANGED <<i, calls>>
    ELSE /\ i' = j
         /\ calls' = Append(calls, [op |-> "search", source |-> j, arg |-> topic])
         /\ pc' = "search"
         /\ UNCHANGED ret

Break(srcs) ==
    /\ Return(NotFound(srcs, topic))
    /\ UNCHANGED <<i, calls>>

\* A failed source is tried once more before the loop goes on.
ContinueWithRetry(srcs) ==
    IF Len(calls) < 2 * i THEN TrySource(i, srcs) ELSE TrySource(i + 1, srcs)

\* continue (lines 274, 279, 303-307) and the fall through to the next pass
Continue(srcs) == TrySource(i + 1, srcs)

StartAnyLanguage ==
    /\ pc = "start"
    /\ LET srcs == IF language \in DOMAIN WIKI_SOURCES
                   THEN WIKI_SOURCES[language] ELSE WIKI_SOURCES["ru"]
       IN  /\ sources' = srcs
           /\ searchResp' = [k \in 1..Len(srcs) |-> None]
           /\ fetchResp' = [k \in 1..Len(srcs) |-> None]
           /\ TrySource(1, srcs)
    /\ UNCHANGED <<language, topic, max_chars, source_urls, cancelled, directVars,
                   concVars>>

\* Entry up to the first await (lines 259-272)
Start ==
    /\ pc = "start"
    /\ IF language \notin DOMAIN WIKI_SOURCES
       THEN /\ Return(UnsupportedLanguage(language, topic))
            /\ UNCHANGED <<sources, i, calls, searchResp, fetchResp>>
       ELSE /\ sources' = WIKI_SOURCES[language]
            /\ searchResp' = [k \in 1..Len(WIKI_SOURCES[language]) |-> None]
            /\ fetchResp' = [k \in 1..Len(WIKI_SOURCES[language]) |-> None]
            /\ TrySource(1, WIKI_SOURCES[language])
    /\ UNCHANGED <<language, topic, max_chars, source_urls, cancelled, directVars,
                   concVars>>

\* A search whose hit is fetched under the topic, not under the title found.
SearchReturnsFetchTopic ==
    /\ pc = "search"
    /\ \E resp \in SearchResponses :
         LET search_result == _search_wiki(resp)
         IN  /\ searchResp' = [searchResp EXCEPT ![i] = Some(resp)]
             /\ IF search_result = None
                THEN Continue(sources)
                ELSE /\ calls' = Append(calls, [op |-> "fetch", source |-> i,
                                                arg |-> topic])
                     /\ pc' = "fetch"
                     /\ UNCHANGED <<i, ret>>
    /\ UNCHANGED <<language, topic, max_chars, sources, source_urls, fetchResp,
                   cancelled, directVars,
                   concVars>>

\* The search of source i completes (line 272) and the code runs on to the
\* next await or return (lines 273-277).
SearchReturns ==
    /\ pc = "search"
    /\ \E resp \in SearchResponses :
         LET search_result == _search_wiki(resp)
         IN  /\ searchResp' = [searchResp EXCEPT ![i] = Some(resp)]
             /\ IF search_result = None
                THEN Continue(sources)
                ELSE /\ calls' = Append(calls, [op |-> "fetch", source |-> i,
                                                arg |-> search_result[1].title])
                     /\ pc' = "fetch"
                     /\ UNCHANGED <<i, ret>>
    /\ UNCHANGED <<language, topic, max_chars, sources, source_urls, fetchResp,
                   cancelled, directVars,
                   concVars>>

AcceptAndGoOn(article, parsed) ==
    LET urls == IF article.url # "" THEN Append(source_urls, article.url)
                ELSE source_urls
        result == [title |-> article.title, summary |-> parsed.summary,
                   sections |-> parsed.sections, source_urls |-> urls,
                   source |-> sources[i].name]
    IN  /\ source_urls' = urls
        /\ ret' = Some(_apply_max_chars(result, max_chars))
        /\ IF i < Len(sources)
           THEN /\ i' = i + 1
                /\ calls' = Append(calls, [op |-> "search", source |-> i + 1,
                                           arg |-> topic])
                /\ pc' = "search"
           ELSE /\ pc' = "done"
                /\ UNCHANGED <<i, calls>>

\* A usable document: build the result, apply the budget, return
\* (lines 286-300).
Accept(article, parsed) ==
    LET urls == IF article.url # "" THEN Append(source_urls, article.url)
                ELSE source_urls
        result == [title |-> article.title, summary |-> parsed.summary,
                   sections |-> parsed.sections, source_urls |-> urls,
                   source |-> sources[i].name]
    IN  /\ source_urls' = urls
        /\ Return(_apply_max_chars(result, max_chars))
        /\ UNCHANGED <<i, calls>>

\* The title the pending fetch was issued with.
FetchTitle == calls[Len(calls)].arg

\* The fetch of source i completes (line 277) and the code runs on to the
\* next await or return (lines 278-307).
\* if parsed["summary"] or parsed["sections"]: ... return (lines 285-300);
\* otherwise the next pass of the loop.
OnParsed(article, parsed) ==
    IF Usable(parsed)
    THEN Accept(article, parsed)
    ELSE Continue(sources) /\ UNCHANGED source_urls

\* Lines 278-282, for the value _get_article_content returned.
OnArticle(article) ==
    IF article = None \/ article[1].extract = <<>>
    THEN Continue(sources) /\ UNCHANGED source_urls
    ELSE OnParsed(article[1],
                  _parse_sections(article[1].extract, article[1].title))

FetchReturns ==
    /\ pc = "fetch"
    /\ \E resp \in FetchResponses(sources[i].url, FetchTitle) :
         /\ fetchResp' = [fetchResp EXCEPT ![i] = Some(resp)]
         /\ OnArticle(_get_article_content(resp))
    /\ UNCHANGED <<language, topic, max_chars, sources, searchResp, cancelled,
                   directVars, concVars>>

\* No call is in progress: the values the variables of a call have then.
CascadeIdle ==
    /\ pc = "idle"
    /\ language = "ru"
    /\ topic = "cats"
    /\ max_chars = MinMaxChars
    /\ sources = <<>>
    /\ i = 0
    /\ source_urls = <<>>
    /\ searchResp = <<>>
    /\ fetchResp = <<>>
    /\ calls = <<>>
    /\ ret = None
    /\ cancelled = FALSE

ParseIdle == ptext = <<>> /\ pout = None

BudgetIdle ==
    /\ bdoc = [summary |-> <<>>, sections |-> <<>>]
    /\ bmax = MinMaxChars
    /\ bout = None

TruncIdle == tcontent = <<>> /\ tn = 0 /\ tout = None

CleanIdle == ctext = <<>> /\ cout = None

\* The calls that may run at the same time, and the objects they create:
\* the list source_urls (line 266) and the dict returned (260, 289, 310).
Tasks == {1, 2}

HeapIds == Tasks \X {"source_urls", "payload"}

\* A call that has not been made.
NoTask ==
    [pc |-> "idle", language |-> "ru", topic |-> "cats",
     max_chars |-> MinMaxChars, i |-> 0, title |-> "",
     searchResp |-> <<>>, fetchResp |-> <<>>, ret |-> None]

ConcIdle ==
    /\ wiki = WIKI_SOURCES
    /\ task = [t \in Tasks |-> NoTask]
    /\ heap = [id \in HeapIds |-> None]

Init ==
    /\ pc = "start"
    /\ language \in Languages
    /\ topic \in Topics
    /\ max_chars = MinMaxChars
    /\ sources = <<>>
    /\ i = 0
    /\ source_urls = <<>>
    /\ searchResp = <<>>
    /\ fetchResp = <<>>
    /\ calls = <<>>
    /\ ret = None
    /\ cancelled = FALSE
    /\ ptext = <<>>
    /\ pout = None
    /\ BudgetIdle
    /\ TruncIdle
    /\ CleanIdle
    /\ ConcIdle

Next == Start \/ SearchReturns \/ FetchReturns

\* A direct call _parse_sections(ptext, title), as the tests make it.
ParseCall ==
    /\ pout = None
    /\ pout' = Some(_parse_sections(ptext, <<>>))
    /\ UNCHANGED <<cascadeVars, ptext, budgetVars, truncVars, cleanVars, concVars>>

ParseInit ==
    /\ pc = "idle"
    /\ language = "ru"
    /\ topic = "cats"
    /\ max_chars = MinMaxChars
    /\ sources = <<>>
    /\ i = 0
    /\ source_urls = <<>>
    /\ searchResp = <<>>
    /\ fetchResp = <<>>
    /\ calls = <<>>
    /\ ret = None
    /\ cancelled = FALSE
    /\ ptext \in ParseTexts
    /\ pout = None
    /\ BudgetIdle
    /\ TruncIdle
    /\ CleanIdle
    /\ ConcIdle

ParseNext == ParseCall

ParseSpec == ParseInit /\ [][ParseNext]_vars

Spec == Init /\ [][Next]_vars

\* Every awaited request completes: httpx ends it by its timeout at the
\* latest (timeout=15.0, line 77; timeout=20.0, line 108).
LiveSpec == Spec /\ WF_vars(Next)

----------------------------------------------------------------------------
(* What the claims speak about                                             *)

IsSuccess == ret # None /\ "source" \in DOMAIN ret[1]

IsNotFound == ret # None /\ "searched_sources" \in DOMAIN ret[1]

IsLanguageError == ret # None /\ DOMAIN ret[1] = {"error", "topic"}

\* The configured sources of the language, in priority order.
Configured ==
    IF language \in DOMAIN WIKI_SOURCES THEN WIKI_SOURCES[language] ELSE <<>>

ConfiguredNames == [k \in 1..Len(Configured) |-> Configured[k].name]

\* The positions of the sources of the running call.
SourceIndexes == 1..Len(searchResp)

\* The search of source k returned a hit.
SearchHit(k) ==
    /\ searchResp[k] # None
    /\ searchResp[k][1].kind = "ok"
    /\ searchResp[k][1].search # <<>>

\* The extract the fetch of source k returned, <<>> when it returned none.
FetchedExtract(k) ==
    IF /\ fetchResp[k] # None
       /\ fetchResp[k][1].kind = "ok"
       /\ fetchResp[k][1].pages # <<>>
       /\ ~fetchResp[k][1].pages[1].missing
       /\ fetchResp[k][1].pages[1].extract # None
    THEN fetchResp[k][1].pages[1].extract[1]
    ELSE <<>>

\* The parsed summary is non-empty or there is at least one section.
DocUsable(d) == Len(d.summary) > 0 \/ Len(d.sections) >= 1

\* Source k gave a hit, a non-empty extract and a usable document.
SourceViable(k) ==
    /\ SearchHit(k)
    /\ FetchedExtract(k) # <<>>
    /\ DocUsable(_parse_sections(FetchedExtract(k), <<>>))

\* Source k answered and is not viable.
SourceFailed(k) ==
    /\ searchResp[k] # None
    /\ SearchHit(k) => fetchResp[k] # None
    /\ ~SourceViable(k)

Searched(k) ==
    \E n \in 1..Len(calls) : calls[n].op = "search" /\ calls[n].source = k

SearchPos(k) ==
    CHOOSE n \in 1..Len(calls) : calls[n].op = "search" /\ calls[n].source = k

\* The call issued right after the last call against source k is the search
\* of source k + 1 for the topic.
NextSearched(k) ==
    \E n \in 1..(Len(calls) - 1) :
        /\ calls[n].source = k
        /\ \A m \in (n + 1)..Len(calls) : calls[m].source # k
        /\ calls[n + 1] = [op |-> "search", source |-> k + 1, arg |-> topic]

\* The position of the source a success payload names.
AcceptedIndex ==
    CHOOSE k \in 1..Len(Configured) : Configured[k].name = ret[1].source

----------------------------------------------------------------------------
(* Claims                                                                  *)

\* C1: as soon as a source has yielded a usable document the call has
\* returned that source's result, and no search or fetch was issued against
\* a source later in the list.
C1_StopsAtFirstSuccess ==
    \A k \in SourceIndexes :
        SourceViable(k) =>
            /\ pc = "done"
            /\ IsSuccess
            /\ ret[1].source = Configured[k].name
            /\ \A n \in 1..Len(calls) : calls[n].source <= k

C1_Witness ==
    /\ language = "en"
    /\ Len(searchResp) = 3
    /\ SourceViable(2)
    /\ pc = "done"

\* C2: a success names the first source, in the configured order, that is
\* viable; every earlier source was searched before it and failed.
C2_FirstViableSource ==
    IsSuccess =>
        /\ \E k \in 1..Len(Configured) : Configured[k].name = ret[1].source
        /\ SourceViable(AcceptedIndex)
        /\ \A k \in 1..(AcceptedIndex - 1) :
              /\ Searched(k)
              /\ SourceFailed(k)
              /\ SearchPos(k) < SearchPos(AcceptedIndex)

C2_Witness ==
    /\ language = "en"
    /\ IsSuccess
    /\ ret[1].source = "wikipedia"

\* C3: when every configured source has failed the call returns the
\* not-found payload, and a not-found payload carries the topic and the names
\* of all configured sources in order, each of them searched and failed.
C3_NotFoundListsAllSources ==
    /\ IsNotFound =>
          /\ ret[1].topic = topic
          /\ ret[1].searched_sources = ConfiguredNames
          /\ \A k \in 1..Len(Configured) : Searched(k) /\ SourceFailed(k)
    /\ (/\ Len(searchResp) > 0
        /\ \A k \in SourceIndexes : SourceFailed(k)) => (pc = "done" /\ IsNotFound)

C3_Witness ==
    /\ language = "en"
    /\ IsNotFound
    /\ searchResp[1][1].kind = "timeout"
    /\ SearchHit(2) /\ FetchedExtract(2) # <<>>
    /\ searchResp[3][1] = [kind |-> "ok", search |-> <<>>]

\* C4: a call with a language that is no key of WIKI_SOURCES returns the
\* error payload with the topic, and no search or fetch is ever issued.
C4_UnsupportedLanguage ==
    (language \notin DOMAIN WIKI_SOURCES) =>
        /\ calls = <<>>
        /\ pc \in {"start", "done"}
        /\ pc = "done" =>
              /\ IsLanguageError
              /\ ret[1].topic = topic

C4_Witness ==
    /\ language = "de"
    /\ pc = "done"
    /\ IsLanguageError

\* C5: every call eventually returns, with a success or a structured failure
\* payload, and a payload once returned is never replaced by another.
C5_AlwaysReturnsOnePayload ==
    /\ <>[](pc = "done" /\ (IsSuccess \/ IsNotFound \/ IsLanguageError))
    /\ [][ret # None => ret' = ret]_vars

C5_Witness ==
    /\ language = "en"
    /\ pc = "done"
    /\ IsSuccess
    /\ searchResp[1][1].kind = "timeout"
    /\ fetchResp[2] # None /\ fetchResp[2][1].kind = "timeout"

\* C6: a failure of source k is not fatal: when a source k + 1 exists it is
\* the next one searched, and when a later source is viable the call returns
\* that source's success payload.
C6_FailureAdvances ==
    \A k \in SourceIndexes :
        SourceFailed(k) =>
            /\ k < Len(Configured) => NextSearched(k)
            /\ \A j \in SourceIndexes :
                  (j > k /\ SourceViable(j)) =>
                      (IsSuccess /\ ret[1].source = Configured[j].name)

C6_Witness ==
    /\ language = "en"
    /\ Len(searchResp) = 3
    /\ searchResp[1] # None /\ searchResp[1][1].kind = "http_error"
    /\ SourceViable(2)
    /\ IsSuccess

\* C7: every success payload has a source_urls list of exactly one entry,
\* the URL of the article fetched from the accepted source.
C7_OneSourceUrl ==
    IsSuccess =>
        /\ Len(ret[1].source_urls) = 1
        /\ ret[1].source_urls[1][1] = Configured[AcceptedIndex].url

\* C8: a success payload is a usable document, and a source whose non-empty
\* extract parses to an empty summary and no sections is skipped: it is not
\* the accepted source and the next source is tried.
C8_OnlyUsableAccepted ==
    /\ IsSuccess => DocUsable(ret[1])
    /\ \A k \in SourceIndexes :
          (/\ FetchedExtract(k) # <<>>
           /\ ~DocUsable(_parse_sections(FetchedExtract(k), <<>>))) =>
              /\ IsSuccess => ret[1].source # Configured[k].name
              /\ k < Len(Configured) => NextSearched(k)
              /\ k = Len(Configured) => IsNotFound

C8_Witness ==
    /\ language = "en"
    /\ Len(fetchResp) = 3
    /\ FetchedExtract(1) = <<"{", "{", "a", "}", "}">>
    /\ Searched(2)
    /\ IsSuccess

----------------------------------------------------------------------------
(* Claims about _parse_sections, under ParseSpec                           *)

\* The lines of the input text and the positions of its heading lines.
TextLines == Split(ptext, NL)

HeadingLines == {k \in 1..Len(TextLines) : IsHeading(TextLines[k])}

\* The first heading line after line k; one past the last line if none.
HeadingAfter(k) ==
    IF \E h \in HeadingLines : h > k
    THEN CHOOSE h \in HeadingLines :
            h > k /\ \A g \in HeadingLines : g > k => h <= g
    ELSE Len(TextLines) + 1

\* The lines between heading line k and the next heading, joined.
BodyOf(k) == Join(SubSeq(TextLines, k + 1, HeadingAfter(k) - 1), NL)

\* C9: every section of the output has non-empty content, and the sections
\* are exactly the headings whose body cleans to a non-empty text: a heading
\* with an empty, blank or markup-only body produces no section.
C9_SectionsHaveContent ==
    pout # None =>
        /\ \A n \in 1..Len(pout[1].sections) :
              /\ pout[1].sections[n].content # <<>>
              /\ Strip(pout[1].sections[n].content) # <<>>
        /\ Len(pout[1].sections) =
              Cardinality({k \in HeadingLines :
                              _clean_wiki_text(BodyOf(k)) # <<>>})

C9_Witness ==
    /\ pout # None
    /\ Len(pout[1].sections) >= 1
    /\ \E k \in HeadingLines :
          /\ Strip(BodyOf(k)) # <<>>
          /\ _clean_wiki_text(BodyOf(k)) = <<>>
          /\ k < HeadingAfter(k) /\ HeadingAfter(k) <= Len(TextLines)

\* C10: the summary is the cleaned join of exactly the lines before the
\* first heading line; a text without heading line has no sections; the
\* empty text gives an empty summary and no sections.
C10_SummaryIsLeadingLines ==
    pout # None =>
        /\ pout[1].summary =
              _clean_wiki_text(Join(SubSeq(TextLines, 1, HeadingAfter(0) - 1), NL))
        /\ HeadingLines = {} => pout[1].sections = <<>>
        /\ ptext = <<>> => pout[1] = [summary |-> <<>>, sections |-> <<>>]

C10_Witness ==
    /\ pout # None
    /\ HeadingAfter(0) \in 2..(Len(TextLines) - 1)
    /\ pout[1].summary # <<>>
    /\ Len(pout[1].sections) >= 1

RECURSIVE KeptFrom(_)
\* The heading lines from line k on whose body cleans to a non-empty text,
\* in the order of the lines.
KeptFrom(k) ==
    IF k > Len(TextLines) THEN <<>>
    ELSE (IF k \in HeadingLines /\ _clean_wiki_text(BodyOf(k)) # <<>>
          THEN <<k>> ELSE <<>>) \o KeptFrom(k + 1)

RECURSIVE WithoutEquals(_)
\* A line without its '=' characters.
WithoutEquals(line) ==
    IF line = <<>> THEN <<>>
    ELSE (IF Head(line) = "=" THEN <<>> ELSE <<Head(line)>>)
         \o WithoutEquals(Tail(line))

\* C11: the sections are, in the order of their heading lines, the headings
\* with a non-empty cleaned body; each has the trimmed heading text as title
\* and the cleaned lines up to the next heading as content, whatever the
\* depth of the heading and whether or not titles repeat.
C11_SectionsInDocumentOrder ==
    pout # None =>
        /\ Len(pout[1].sections) = Len(KeptFrom(1))
        /\ \A n \in 1..Len(pout[1].sections) :
              pout[1].sections[n] =
                  [title   |-> Strip(WithoutEquals(TextLines[KeptFrom(1)[n]])),
                   content |-> _clean_wiki_text(BodyOf(KeptFrom(1)[n]))]

C11_Witness ==
    /\ pout # None
    /\ Len(pout[1].sections) = 2
    /\ pout[1].sections[1].title = <<"b">>
    /\ pout[1].sections[2].title = <<"a">>
    /\ pout[1].sections[1].content # pout[1].sections[2].content

----------------------------------------------------------------------------
(* Direct calls of _apply_max_chars, as test_apply_max_chars makes them    *)

\* A text of len characters 'a' that has the separator sep at every
\* gap-th position (no separator when gap = 0).
Filler(len, gap, sep) ==
    [k \in 1..len |-> IF gap > 0 /\ k % gap = 0 THEN sep ELSE "a"]

\* Solid text, words of six letters, words of eight letters one per line.
SummaryLayouts ==
    { [gap |-> 0, sep |-> SP], [gap |-> 7, sep |-> SP], [gap |-> 9, sep |-> NL] }

SectionLayouts ==
    { [gap |-> 0, sep |-> SP], [gap |-> 7, sep |-> SP] }

\* Lengths around the shares of the two budgets below; a section of 299
\* characters is within what a summary cut to 200 characters leaves of 500
\* only when the summary's ellipsis is not counted.
SummaryLengths == {200, 201, 300}

SectionLengths == {200, 203, 299, 400}

BudgetSummaries ==
    {<<>>} \cup { Filler(l, y.gap, y.sep) : l \in SummaryLengths, y \in SummaryLayouts }

BudgetSections ==
    { [title |-> <<"a">>, content |-> Filler(l, y.gap, y.sep)] :
        l \in SectionLengths, y \in SectionLayouts }

MaxSections == 2

BudgetSectionLists ==
    UNION { [1..m -> BudgetSections] : m \in 0..MaxSections }

BudgetDocs ==
    { [title |-> <<"a">>, summary |-> s, sections |-> l,
       source_urls |-> <<>>, source |-> "wikibooks"] :
        s \in BudgetSummaries, l \in BudgetSectionLists }

\* The least budget the tool accepts, and one that is no multiple of ten.
BudgetMaxChars == {MinMaxChars, MinMaxChars + 3}

\* result = _apply_max_chars(result, max_chars)
BudgetCall ==
    /\ bout = None
    /\ bout' = Some(_apply_max_chars(bdoc, bmax))
    /\ UNCHANGED <<cascadeVars, parseVars, bdoc, bmax, truncVars, cleanVars,
                   concVars>>

BudgetInit ==
    /\ CascadeIdle
    /\ ParseIdle
    /\ bdoc \in BudgetDocs
    /\ bmax \in BudgetMaxChars
    /\ bout = None
    /\ TruncIdle
    /\ CleanIdle
    /\ ConcIdle

BudgetNext == BudgetCall

BudgetSpec == BudgetInit /\ [][BudgetNext]_vars

\* The characters a document counts (lines 192-195).
TotalChars(d) == Len(d.summary) + SumContent(d.sections)

\* C12: a document whose summary and section contents together have at most
\* max_chars characters, equality included, is returned as it is, every
\* field; so applying the budget to the result returns it again.
C12_WithinBudgetUnchanged ==
    (bout # None /\ TotalChars(bdoc) <= bmax) =>
        /\ bout[1] = bdoc
        /\ _apply_max_chars(bout[1], bmax) = bout[1]

C12_Witness ==
    /\ bout # None
    /\ TotalChars(bdoc) = bmax
    /\ 10 * Len(bdoc.summary) > 4 * bmax
    /\ bdoc.sections # <<>>

\* The parts of the document whose text the budget changed.
TruncatedParts(before, after) ==
    (IF after.summary # before.summary THEN 1 ELSE 0)
    + Cardinality({ k \in 1..Len(before.sections) :
                      after.sections[k].content # before.sections[k].content })

\* C13: for a budget in the accepted range and a document over it, the
\* result counts at most max_chars characters plus three for every part
\* that was truncated.
C13_SoftBudget ==
    (bout # None /\ TotalChars(bdoc) > bmax /\ bmax \in 500..20000) =>
        /\ Len(bout[1].sections) = Len(bdoc.sections)
        /\ TotalChars(bout[1]) <= bmax + 3 * TruncatedParts(bdoc, bout[1])

C13_Witness ==
    /\ bout # None
    /\ TotalChars(bdoc) > bmax
    /\ TotalChars(bout[1]) > bmax
    /\ TruncatedParts(bdoc, bout[1]) = 2

----------------------------------------------------------------------------
(* Direct calls of _truncate_content                                       *)

MaxContentLen == 4

\* Every text of letters, spaces and newlines up to MaxContentLen.
ShortContents ==
    UNION { [1..m -> {"a", SP, NL}] : m \in 0..MaxContentLen }

\* Texts with their separators around seven tenths of the targets 10 and 90.
LongContents ==
    { Filler(l, g, s) : l \in {14, 94}, g \in {7, 8, 9, 63, 64, 65}, s \in {SP, NL} }

TruncContents == ShortContents \cup LongContents

\* Targets below the short texts, and a target for each rounding of n * 0.7.
TruncTargets == {0, 1, 2, 3, 10, 90}

\* _truncate_content(content, max_chars)
TruncCall ==
    /\ tout = None
    /\ tout' = Some(_truncate_content(tcontent, tn))
    /\ UNCHANGED <<cascadeVars, parseVars, budgetVars, tcontent, tn, cleanVars,
                   concVars>>

TruncInit ==
    /\ CascadeIdle
    /\ ParseIdle
    /\ BudgetIdle
    /\ tcontent \in TruncContents
    /\ tn \in TruncTargets
    /\ tout = None
    /\ CleanIdle
    /\ ConcIdle

TruncNext == TruncCall

TruncSpec == TruncInit /\ [][TruncNext]_vars

\* The 0-based indexes of the separators among the first n characters of
\* the content that lie past seven tenths of n.
LateSeparators(content, n) ==
    { c \in 0..(n - 1) : content[c + 1] \in {SP, NL} /\ 10 * c > 7 * n }

\* C14: a content longer than n is cut at its rightmost separator past 70%
\* of n when the first n characters have one, and only otherwise after
\* exactly n characters; the ellipsis follows in both cases.
C14_CutsAtLateSeparator ==
    (tout # None /\ Len(tcontent) > tn) =>
        IF LateSeparators(tcontent, tn) # {}
        THEN \E c \in LateSeparators(tcontent, tn) :
                /\ \A d \in LateSeparators(tcontent, tn) : d <= c
                /\ tout[1] = SubSeq(tcontent, 1, c) \o Ellipsis
        ELSE tout[1] = SubSeq(tcontent, 1, tn) \o Ellipsis

----------------------------------------------------------------------------
(* Direct calls of _clean_wiki_text                                        *)

\* The pieces the texts are made of: a letter, the separators, the markers,
\* a further segment of a link, the start of a piped link and of a media
\* reference.
CleanParts ==
    { <<"a">>, <<SP>>, <<NL>>,
      <<"[", "[">>, <<"]", "]">>, <<"{", "{">>, <<"}", "}">>, <<"<">>, <<">">>,
      <<"|", "c">>,
      <<"[", "[", "a", "|", "b">>,
      <<"[", "[", "File", ":", "a">> }

MaxParts == 3

RECURSIVE Concat(_)
Concat(parts) ==
    IF parts = <<>> THEN <<>> ELSE Head(parts) \o Concat(Tail(parts))

\* Markup with markup inside, which takes more pieces than MaxParts: a
\* template in a template, a template with a single closing brace in its
\* body, media and category references with pipes and with a link in the
\* caption.
NestedSamples ==
    { <<"{", "{", "a", "{", "{", "b", "}", "}", "c", "}", "}">>,
      <<"{", "{", "a", "|", "{", "{", "b", "}", "}", "}", "}">>,
      <<"a", "{", "{", "b", "{", "{", "c", "}", "}", "}", "}", "a">>,
      <<"{", "{", "a", "}", "b", "}", "}">>,
      <<"[", "[", "File", ":", "a", "|", "b", "|", "c", "]", "]">>,
      <<"a", "[", "[", "File", ":", "a", "|", "b", SP, "c", "]", "]", "a">>,
      <<"[", "[", "Category", ":", "a", "|", "b", "]", "]">>,
      <<"[", "[", "File", ":", "a", "|", "[", "[", "b", "]", "]", "]", "]">>,
      <<"[", "[", "File", ":", "a", "|", "b", "|",
        "[", "[", "b", "|", "c", "]", "]", "]", "]">>,
      <<"[", "[", "Category", ":", "a", "|", "[", "[", "b", "]", "]", "]", "]">> }

\* Markup between whitespace, and whitespace runs of the lengths the last
\* two patterns tell apart.
SpacedSamples ==
    { <<"a", SP, "{", "{", "b", "}", "}", SP, "a">>,
      <<"a", SP, "<", "b", ">", SP, "a">>,
      <<"a", NL, NL, "{", "{", "b", "}", "}", NL, NL, "a">>,
      <<"a", NL, "[", "[", "File", ":", "a", "]", "]", NL, NL, "a">>,
      <<"a", NL, SP, "[", "[", "Category", ":", "a", "]", "]", NL, "a">>,
      <<"a", SP, SP, "a">>,
      <<"a", SP, SP, SP, "a">>,
      <<"a", NL, NL, "a">>,
      <<"a", NL, NL, NL, "a">>,
      <<"a", NL, NL, NL, NL, SP, "a">>,
      <<"a", NL, SP, NL, SP, NL, "a">>,
      <<SP, "{", "{", "b", "}", "}", NL, NL, NL>> }

CleanTexts ==
    { Concat(parts) : parts \in UNION { [1..m -> CleanParts] : m \in 0..MaxParts } }
        \cup NestedSamples \cup SpacedSamples

\* _clean_wiki_text(text)
CleanCall ==
    /\ cout = None
    /\ cout' = Some(_clean_wiki_text(ctext))
    /\ UNCHANGED <<cascadeVars, parseVars, budgetVars, truncVars, ctext, concVars>>

CleanInit ==
    /\ CascadeIdle
    /\ ParseIdle
    /\ BudgetIdle
    /\ TruncIdle
    /\ ctext \in CleanTexts
    /\ cout = None
    /\ ConcIdle

CleanNext == CleanCall

CleanSpec == CleanInit /\ [][CleanNext]_vars

Letters == {"a", "b", "c"}

Characters ==
    Letters \cup Whitespace \cup FileNamespaces \cup CategoryNamespaces
            \cup {"[", "]", "{", "}", "<", ">", "|", ":"}

\* The text t occurs in the text at position p.
OccursAt(text, t, p) ==
    /\ p >= 1
    /\ p + Len(t) - 1 <= Len(text)
    /\ \A k \in 1..Len(t) : text[p + k - 1] = t[k]

Occurs(text, t) == \E p \in 1..Len(text) : OccursAt(text, t, p)

\* The opening markers with their closing markers.
Markers ==
    { [open |-> <<"[", "[">>, close |-> <<"]", "]">>],
      [open |-> <<"{", "{">>, close |-> <<"}", "}">>],
      [open |-> <<"<">>,      close |-> <<">">>] }

\* The marker m opens at p and its closing marker occurs nowhere after it.
UnmatchedAt(text, m, p) ==
    /\ OccursAt(text, m.open, p)
    /\ \A q \in (p + Len(m.open))..Len(text) : ~OccursAt(text, m.close, q)

RECURSIVE NonWhitespace(_)
\* The text without its spaces and newlines.
NonWhitespace(text) ==
    IF text = <<>> THEN <<>>
    ELSE (IF Head(text) \in Whitespace THEN <<>> ELSE <<Head(text)>>)
         \o NonWhitespace(Tail(text))

IsSuffix(t, text) ==
    /\ Len(t) <= Len(text)
    /\ SubSeq(text, Len(text) - Len(t) + 1, Len(text)) = t

\* A marker opens at p and no closing character of any kind follows it.
OpenToTheEnd(text, p) ==
    /\ \E m \in Markers : OccursAt(text, m.open, p)
    /\ \A q \in p..Len(text) : text[q] \notin {"]", "}", ">"}

PlainPipedLink(text, p, a, e) ==
    /\ 1 <= p /\ p + 2 < a /\ a + 1 < e /\ e + 1 <= Len(text)
    /\ OccursAt(text, <<"[", "[">>, p)
    /\ OccursAt(text, <<"]", "]">>, e)
    /\ text[a] = "|"
    /\ \A k \in 1..(p - 1) : text[k] \in Letters
    /\ \A k \in (p + 2)..(a - 1) : text[k] \in Letters
    /\ \A k \in (a + 1)..(e - 1) : text[k] \in Letters \cup {"|"}
    /\ \A k \in (e + 2)..Len(text) : text[k] \in Letters

\* The position of the last pipe before e.
LastPipe(text, e) ==
    CHOOSE l \in 1..(e - 1) :
        /\ text[l] = "|"
        /\ \A k \in (l + 1)..(e - 1) : text[k] # "|"

\* The statement of C20 as the specification has it: of a link with pipes
\* only the text after its last pipe stays.
C20_KeepsAfterLastPipe ==
    cout # None =>
        \A p, a, e \in 1..Len(ctext) :
            PlainPipedLink(ctext, p, a, e) =>
                cout[1] = SubSeq(ctext, 1, p - 1)
                          \o SubSeq(ctext, LastPipe(ctext, e) + 1, e - 1)
                          \o SubSeq(ctext, e + 2, Len(ctext))

\* C20: of a double-bracket link with one or more pipes the text after its
\* first pipe stays: the target and the first pipe go, further segments
\* stay with their pipes.
C20_KeepsAfterFirstPipe ==
    cout # None =>
        \A p, a, e \in 1..Len(ctext) :
            PlainPipedLink(ctext, p, a, e) =>
                cout[1] = SubSeq(ctext, 1, p - 1)
                          \o SubSeq(ctext, a + 1, e - 1)
                          \o SubSeq(ctext, e + 2, Len(ctext))

C20_Witness ==
    /\ cout # None
    /\ \E p, a, e \in 1..Len(ctext) :
          /\ PlainPipedLink(ctext, p, a, e)
          /\ LastPipe(ctext, e) > a
    /\ Occurs(cout[1], <<"|">>)

----------------------------------------------------------------------------
(* The order of the external calls                                         *)

\* The response the n-th call got, None while it is in flight.
ResponseOf(n) ==
    IF calls[n].op = "search" THEN searchResp[calls[n].source]
    ELSE fetchResp[calls[n].source]

\* The calls that are issued and have no response yet.
InFlight == { n \in 1..Len(calls) : ResponseOf(n) = None }

\* C16: at most one search or fetch is in flight, and it is the last one
\* issued; a fetch directly follows the search of its own source, which
\* returned a hit, and asks for the title of that hit.
C16_OneCallAtATime ==
    /\ InFlight \subseteq {Len(calls)}
    /\ \A n \in 1..Len(calls) :
          calls[n].op = "fetch" =>
              /\ n > 1
              /\ calls[n - 1].op = "search"
              /\ calls[n - 1].source = calls[n].source
              /\ SearchHit(calls[n].source)
              /\ calls[n].arg = searchResp[calls[n].source][1].search[1].title
    /\ \A n \in 2..Len(calls) :
          calls[n].op = "search" =>
              /\ calls[n].source = calls[n - 1].source + 1
              /\ \A m \in 1..(n - 1) : ResponseOf(m) # None

C16_Witness ==
    /\ Len(calls) = 4
    /\ calls[2].op = "fetch"
    /\ calls[2].arg = "Felis"
    /\ calls[4].op = "fetch"
    /\ calls[4].arg = "Cat"
    /\ InFlight = {4}

\* The calls of one kind issued against source k.
CallsTo(op, k) == { n \in 1..Len(calls) : calls[n].op = op /\ calls[n].source = k }

\* C17: a source is searched at most once and fetched at most once, and
\* the calls go through the sources in their order without going back.
C17_NoRetryNoRevisit ==
    /\ \A k \in SourceIndexes :
          /\ Cardinality(CallsTo("search", k)) <= 1
          /\ Cardinality(CallsTo("fetch", k)) <= 1
    /\ \A n \in 2..Len(calls) : calls[n - 1].source <= calls[n].source

C17_Witness ==
    /\ pc = "done"
    /\ Len(sources) = 3
    /\ SearchHit(1) /\ fetchResp[1] # None /\ fetchResp[1][1].kind = "timeout"
    /\ searchResp[2] # None /\ searchResp[2][1].kind = "http_error"
    /\ Len(calls) = 5

----------------------------------------------------------------------------
(* Cancellation of the task that runs wiki_get_material                    *)

\* An except clause that catches every exception, BaseException included.
CaughtByBareExcept(exc) == TRUE

\* except Exception (lines 89, 130, 306): asyncio.CancelledError derives
\* from BaseException and passes it.
Caught(exc) == exc # "CancelledError"

\* The awaited client.get raises exc: caught, the helper returns None and
\* the loop continues (lines 89-91, 273-274); not caught, it leaves the
\* helper and wiki_get_material.
Raise(exc) ==
    IF Caught(exc)
    THEN Continue(sources)
    ELSE /\ pc' = "cancelled"
         /\ UNCHANGED <<i, calls, ret>>

\* The task is cancelled while the search or the fetch is awaited.
Cancel ==
    /\ pc \in {"search", "fetch"}
    /\ cancelled' = TRUE
    /\ Raise("CancelledError")
    /\ UNCHANGED <<language, topic, max_chars, sources, source_urls,
                   searchResp, fetchResp, directVars, concVars>>

CancelNext == Start \/ SearchReturns \/ FetchReturns \/ Cancel

CancelSpec == Init /\ [][CancelNext]_vars

\* C19: a cancelled call has left the coroutine with no payload, its last
\* call still unanswered and none issued after it; the step that cancels
\* changes nothing else, and nothing changes afterwards.
C19_CancellationAborts ==
    /\ [](cancelled =>
            /\ pc = "cancelled"
            /\ ret = None
            /\ InFlight = {Len(calls)})
    /\ [][(cancelled' /\ ~cancelled) =>
            /\ pc \in {"search", "fetch"}
            /\ UNCHANGED <<language, topic, max_chars, sources, i, source_urls,
                           searchResp, fetchResp, calls, ret, directVars>>]_vars
    /\ [][~cancelled]_vars

C19_Witness ==
    /\ cancelled
    /\ Len(sources) = 3
    /\ Len(calls) = 3
    /\ calls[3].op = "fetch"
    /\ calls[3].source = 2

----------------------------------------------------------------------------
(* Two calls of wiki_get_material in one event loop; a call runs from one  *)
(* await to the next without interruption                                  *)

ConcLanguages == {"ru", "en", "de"}

ConcTopic(t) == IF t = 1 THEN "cats" ELSE "dogs"

ConcSearchResponses ==
    {[kind |-> "timeout"],
     [kind |-> "ok", search |-> <<[title |-> "Cat", pageid |-> 1]>>]}

ConcFetchResponses(api_url, title) ==
    {[kind |-> "timeout"]}
    \cup {[kind |-> "ok",
           pages |-> <<[missing |-> FALSE, title |-> Some(title),
                        extract |-> Some(e),
                        fullurl |-> Some(<<api_url, title>>)]>>] :
            e \in Extracts}

\* A list every call uses, as a module-level list would be.
SharedListOf(t) == <<1, "source_urls">>

\* source_urls: List[str] = []  (line 266): a new list for each call
ListOf(t) == <<t, "source_urls">>

\* The dict a call returns (lines 260, 289, 310): a new dict for each call
PayloadOf(t) == <<t, "payload">>

\* sources = WIKI_SOURCES[language]  (line 265): the shared list itself
SourcesOf(r) == wiki[r.language]

\* return <payload> of call t, whose locals are now r
ConcReturn(t, r, payload) ==
    /\ task' = [task EXCEPT ![t] = [r EXCEPT !.ret = Some(PayloadOf(t)),
                                             !.pc = "done"]]
    /\ heap' = [heap EXCEPT ![PayloadOf(t)] = Some(payload)]

\* The head of the loop for source j (lines 269-272, 310-314)
ConcTrySource(t, r, j) ==
    IF j > Len(SourcesOf(r))
    THEN ConcReturn(t, r, NotFound(SourcesOf(r), r.topic))
    ELSE /\ task' = [task EXCEPT ![t] = [r EXCEPT !.i = j, !.pc = "search"]]
         /\ UNCHANGED heap

ConcContinue(t, r) == ConcTrySource(t, r, r.i + 1)

\* Entry up to the first await (lines 259-272)
ConcStart(t) ==
    /\ task[t].pc = "start"
    /\ IF task[t].language \notin DOMAIN wiki
       THEN ConcReturn(t, task[t],
                       UnsupportedLanguage(task[t].language, task[t].topic))
       ELSE /\ task' = [task EXCEPT ![t] =
                   [@ EXCEPT !.i = 1, !.pc = "search",
                             !.searchResp =
                                 [k \in 1..Len(SourcesOf(task[t])) |-> None],
                             !.fetchResp =
                                 [k \in 1..Len(SourcesOf(task[t])) |-> None]]]
            /\ heap' = [heap EXCEPT ![ListOf(t)] = Some(<<>>)]
    /\ UNCHANGED <<cascadeVars, directVars, wiki>>

\* The search of call t completes (lines 272-277)
ConcSearchReturns(t) ==
    /\ task[t].pc = "search"
    /\ \E resp \in ConcSearchResponses :
         IF _search_wiki(resp) = None
         THEN ConcContinue(t, [task[t] EXCEPT !.searchResp[task[t].i] = Some(resp)])
         ELSE /\ task' = [task EXCEPT ![t] =
                     [@ EXCEPT !.searchResp[task[t].i] = Some(resp),
                               !.title = _search_wiki(resp)[1].title,
                               !.pc = "fetch"]]
              /\ UNCHANGED heap
    /\ UNCHANGED <<cascadeVars, directVars, wiki>>

\* Lines 286-300: the URL is appended to the list of the call, the result
\* dict refers to that list, the budget is applied to the dict in place.
ConcAccept(t, r, article, parsed) ==
    /\ task' = [task EXCEPT ![t] = [r EXCEPT !.ret = Some(PayloadOf(t)),
                                             !.pc = "done"]]
    /\ heap' = [heap EXCEPT
                  ![ListOf(t)] = IF article.url # "" THEN Some(Append(@[1], article.url))
                                 ELSE @,
                  ![PayloadOf(t)] =
                      Some(_apply_max_chars(
                             [title |-> article.title, summary |-> parsed.summary,
                              sections |-> parsed.sections,
                              source_urls |-> ListOf(t),
                              source |-> SourcesOf(r)[r.i].name],
                             r.max_chars))]

ConcOnParsed(t, r, article, parsed) ==
    IF Usable(parsed) THEN ConcAccept(t, r, article, parsed)
    ELSE ConcContinue(t, r)

ConcOnArticle(t, r, article) ==
    IF article = None \/ article[1].extract = <<>>
    THEN ConcContinue(t, r)
    ELSE ConcOnParsed(t, r, article[1],
                      _parse_sections(article[1].extract, article[1].title))

\* The fetch of call t completes (lines 277-307)
ConcFetchReturns(t) ==
    /\ task[t].pc = "fetch"
    /\ \E resp \in ConcFetchResponses(SourcesOf(task[t])[task[t].i].url,
                                      task[t].title) :
         ConcOnArticle(t, [task[t] EXCEPT !.fetchResp[task[t].i] = Some(resp)],
                       _get_article_content(resp))
    /\ UNCHANGED <<cascadeVars, directVars, wiki>>

ConcInit ==
    /\ CascadeIdle
    /\ ParseIdle
    /\ BudgetIdle
    /\ TruncIdle
    /\ CleanIdle
    /\ wiki = WIKI_SOURCES
    /\ \E l \in [Tasks -> ConcLanguages] :
         task = [t \in Tasks |->
                   [NoTask EXCEPT !.pc = "start", !.language = l[t],
                                  !.topic = ConcTopic(t)]]
    /\ heap = [id \in HeapIds |-> None]

ConcNext ==
    \E t \in Tasks : ConcStart(t) \/ ConcSearchReturns(t) \/ ConcFetchReturns(t)

ConcSpec == ConcInit /\ [][ConcNext]_vars

\* The payload call t returned, as its caller reads it: the dict with the
\* list its source_urls entry refers to.
PayloadRead(t) ==
    IF "source_urls" \in DOMAIN heap[PayloadOf(t)][1]
    THEN [heap[PayloadOf(t)][1] EXCEPT !.source_urls = heap[@][1]]
    ELSE heap[PayloadOf(t)][1]

\* The payload for a source whose search and fetch gave this article.
AlonePayload(article, parsed, name, n) ==
    _apply_max_chars(
        [title |-> article.title, summary |-> parsed.summary,
         sections |-> parsed.sections,
         source_urls |-> IF article.url # "" THEN <<article.url>> ELSE <<>>,
         source |-> name],
        n)

AloneUsable(article) ==
    /\ article # None
    /\ article[1].extract # <<>>
    /\ Usable(_parse_sections(article[1].extract, article[1].title))

RECURSIVE AloneFrom(_, _, _)
\* What a call with the arguments and the responses of r returns when it
\* runs by itself, from source k of the configured list srcs on.
AloneFrom(k, srcs, r) ==
    IF k > Len(srcs) THEN NotFound(srcs, r.topic)
    ELSE IF /\ _search_wiki(r.searchResp[k][1]) # None
            /\ AloneUsable(_get_article_content(r.fetchResp[k][1]))
         THEN AlonePayload(_get_article_content(r.fetchResp[k][1])[1],
                           _parse_sections(
                               _get_article_content(r.fetchResp[k][1])[1].extract,
                               <<>>),
                           srcs[k].name, r.max_chars)
         ELSE AloneFrom(k + 1, srcs, r)

Alone(r) ==
    IF r.language \notin DOMAIN WIKI_SOURCES
    THEN UnsupportedLanguage(r.language, r.topic)
    ELSE AloneFrom(1, WIKI_SOURCES[r.language], r)

----------------------------------------------------------------------------
(* The budget pass part by part                                            *)

\* C21: the budget never lengthens a document: the summary and every
\* section content of the result are no longer than the texts they come
\* from, and so the result counts no more characters than the document.
C21_NeverLengthens ==
    bout # None =>
        /\ Len(bout[1].summary) <= Len(bdoc.summary)
        /\ Len(bout[1].sections) = Len(bdoc.sections)
        /\ \A k \in 1..Len(bdoc.sections) :
              Len(bout[1].sections[k].content) <= Len(bdoc.sections[k].content)
        /\ TotalChars(bout[1]) <= TotalChars(bdoc)

\* The text is the first characters of the content, at most n of them,
\* followed by the ellipsis marker.
CutTo(text, content, n) ==
    \E m \in 0..n :
        /\ m <= Len(content)
        /\ text = SubSeq(content, 1, m) \o Ellipsis

\* The content has no separator among its first n characters.
Solid(content, n) ==
    \A k \in 1..n : k <= Len(content) => content[k] \notin {SP, NL}

\* C22: in a document over the budget, a summary longer than 0.4 * max_chars
\* is cut to at most 40% of max_chars rounded down (to exactly that many
\* characters when it has no separator there) and any other summary is
\* left as it is; the sections then share max_chars less the length of the
\* resulting summary, its ellipsis included: a section is cut just when it
\* is longer than that remainder divided by the number of sections.
C22_SummaryShare ==
    (bout # None /\ TotalChars(bdoc) > bmax) =>
        LET target == (4 * bmax) \div 10
            remaining == bmax - Len(bout[1].summary)
            count == Len(bdoc.sections)
        IN  /\ IF 10 * Len(bdoc.summary) > 4 * bmax
               THEN /\ CutTo(bout[1].summary, bdoc.summary, target)
                    /\ Solid(bdoc.summary, target) =>
                          Len(bout[1].summary) = target + 3
               ELSE bout[1].summary = bdoc.summary
            /\ Len(bout[1].sections) = count
            /\ \A k \in 1..count :
                  (bout[1].sections[k].content # bdoc.sections[k].content)
                      <=> (Len(bdoc.sections[k].content) > remaining \div count)

\* A summary over its share and a section that fits what the budget would
\* leave if the ellipsis of the summary were not counted.
C22_Witness ==
    /\ bout # None
    /\ TotalChars(bdoc) > bmax
    /\ 10 * Len(bdoc.summary) > 4 * bmax
    /\ Len(bout[1].summary) = (4 * bmax) \div 10 + 3
    /\ Len(bdoc.sections) = 1
    /\ Len(bdoc.sections[1].content) <= bmax - (4 * bmax) \div 10
    /\ bout[1].sections[1].content # bdoc.sections[1].content

\* The document with the content of its j-th section replaced.
WithContent(d, j, content) ==
    [d EXCEPT !.sections[j].content = content]

----------------------------------------------------------------------------
(* The shape of a truncated text                                           *)

\* C24: a content of at most n characters is returned as it is; a longer
\* one, for n >= 1, comes back as a prefix followed by the ellipsis, the
\* prefix being the first n characters or ending right before a separator
\* whose 0-based position is greater than 0.7 * n, so that the result has
\* at most n + 3 characters and keeps more than 70% of n characters.
C24_TruncatedShape ==
    tout # None =>
        IF Len(tcontent) <= tn THEN tout[1] = tcontent
        ELSE tn >= 1 =>
                /\ \E m \in 0..tn :
                      /\ tout[1] = SubSeq(tcontent, 1, m) \o Ellipsis
                      /\ \/ m = tn
                         \/ tcontent[m + 1] \in {SP, NL} /\ 10 * m > 7 * tn
                /\ Len(tout[1]) <= tn + 3
                /\ 10 * (Len(tout[1]) - 3) > 7 * tn

----------------------------------------------------------------------------
(* Markup inside markup                                                    *)

\* The text has none of the characters.
Without(text, chars) == \A k \in 1..Len(text) : text[k] \notin chars

\* The text with the part from lo to hi left out.
Outside(text, lo, hi) == SubSeq(text, 1, lo - 1) \o SubSeq(text, hi + 1, Len(text))

RECURSIVE IsTemplate(_)
\* A balanced template invocation: "{{", a body, "}}", the body being text
\* without an opening brace and without "}}" (a single closing brace may be
\* in the middle of it), or such text around one template of the same kind.
IsTemplate(t) ==
    /\ Len(t) >= 5
    /\ OccursAt(t, <<"{", "{">>, 1)
    /\ OccursAt(t, <<"}", "}">>, Len(t) - 1)
    /\ LET body == SubSeq(t, 3, Len(t) - 2)
       IN  \/ /\ Without(body, {"{"})
              /\ ~Occurs(body, <<"}", "}">>)
              /\ body[Len(body)] # "}"
           \/ \E lo, hi \in 1..Len(body) :
                 /\ lo < hi
                 /\ Without(Outside(body, lo, hi), {"{", "}"})
                 /\ IsTemplate(SubSeq(body, lo, hi))

\* C25: a balanced template invocation goes entirely, a template inside it
\* and a single closing brace in its body included: in a text that has no
\* brace outside the template the result has no brace and is no longer
\* than the text outside the template.
C25_TemplatesGoEntirely ==
    cout # None =>
        \A lo, hi \in 1..Len(ctext) :
            (/\ lo < hi
             /\ IsTemplate(SubSeq(ctext, lo, hi))
             /\ Without(Outside(ctext, lo, hi), {"{", "}"}))
                => /\ Without(cout[1], {"{", "}"})
                   /\ Len(cout[1]) <= Len(Outside(ctext, lo, hi))

\* The characters of a caption: letters, pipes and spaces.
CaptionCharacters == Letters \cup {"|", SP}

\* A media or category reference: "[[", a namespace, a colon, a body and
\* "]]", the body being a name with pipes and captions, with or without one
\* plain or piped link in it.
IsReference(t) ==
    /\ Len(t) >= 7
    /\ OccursAt(t, <<"[", "[">>, 1)
    /\ t[3] \in FileNamespaces \cup CategoryNamespaces
    /\ t[4] = ":"
    /\ OccursAt(t, <<"]", "]">>, Len(t) - 1)
    /\ LET body == SubSeq(t, 5, Len(t) - 2)
       IN  \/ Without(body, Characters \ CaptionCharacters)
           \/ \E lo, hi \in 1..Len(body) :
                 /\ lo > 1
                 /\ lo + 4 <= hi
                 /\ OccursAt(body, <<"[", "[">>, lo)
                 /\ OccursAt(body, <<"]", "]">>, hi - 1)
                 /\ Without(SubSeq(body, lo + 2, hi - 2),
                            Characters \ CaptionCharacters)
                 /\ Without(Outside(body, lo, hi),
                            Characters \ CaptionCharacters)

\* C26: a media or category reference goes entirely, before the link rules
\* see it, pipes and a link in its caption included: in a text that has no
\* bracket and no pipe outside the reference the result has no bracket and
\* no pipe and is no longer than the text outside the reference.
C26_ReferencesGoEntirely ==
    cout # None =>
        \A lo, hi \in 1..Len(ctext) :
            (/\ lo < hi
             /\ IsReference(SubSeq(ctext, lo, hi))
             /\ Without(Outside(ctext, lo, hi), {"[", "]", "|"}))
                => /\ Without(cout[1], {"[", "]", "|"})
                   /\ Len(cout[1]) <= Len(Outside(ctext, lo, hi))

----------------------------------------------------------------------------
(* Whitespace of the cleaned text                                          *)

\* C27: the cleaned text has no three newlines in a row, no two spaces in
\* a row and no whitespace at either end, also where the run comes about
\* only when the markup between the whitespace is removed.
C27_WhitespaceNormalised ==
    cout # None =>
        /\ ~Occurs(cout[1], <<NL, NL, NL>>)
        /\ ~Occurs(cout[1], <<SP, SP>>)
        /\ cout[1] # <<>> =>
              /\ cout[1][1] \notin Whitespace
              /\ cout[1][Len(cout[1])] \notin Whitespace

\* A text without a run of spaces that has one once its template is out.
C27_Witness ==
    /\ cout # None
    /\ ~Occurs(ctext, <<SP, SP>>)
    /\ \E lo, hi \in 1..Len(ctext) :
          /\ lo < hi
          /\ IsTemplate(SubSeq(ctext, lo, hi))
          /\ Occurs(Outside(ctext, lo, hi), <<SP, SP>>)
    /\ cout[1] = <<"a", SP, "a">>

----------------------------------------------------------------------------
(* The form of a heading line                                              *)

\* Two or more '=', optional whitespace, a non-empty title without '=',
\* optional whitespace, two or more '=' to the end of the line.
TitledHeading(line) ==
    LET opening == SameEnd(line, 1, "=") - 1
        closing == TrailingRun(line, "=")
    IN  /\ opening >= 2
        /\ closing >= 2
        /\ opening + closing < Len(line)
        /\ Without(SubSeq(line, opening + 1, Len(line) - closing), {"="})
        /\ Strip(SubSeq(line, opening + 1, Len(line) - closing)) # <<>>

\* The lines before the first line of the heading form.
LeadingLines ==
    IF \E k \in 1..Len(TextLines) : TitledHeading(TextLines[k])
    THEN SubSeq(TextLines, 1,
                (CHOOSE k \in 1..Len(TextLines) :
                    /\ TitledHeading(TextLines[k])
                    /\ \A h \in 1..(k - 1) : ~TitledHeading(TextLines[h])) - 1)
    ELSE TextLines

\* C28: a line is a section boundary exactly when it has the heading form
\* with a non-empty title; so every section of the output has a non-empty
\* title without '=', and a line without a title between its markers stays
\* text: the summary is the cleaned lines before the first line of the
\* heading form.
C28_HeadingsHaveTitles ==
    pout # None =>
        /\ \A n \in 1..Len(pout[1].sections) :
              /\ pout[1].sections[n].title # <<>>
              /\ Without(pout[1].sections[n].title, {"="})
        /\ pout[1].summary = _clean_wiki_text(Join(LeadingLines, NL))

----------------------------------------------------------------------------
(* What a payload tells about the sources                                  *)

\* The success payload as the responses of source k alone determine it.
PayloadOfSource(k) ==
    LET article == _get_article_content(fetchResp[k][1])[1]
        parsed == _parse_sections(article.extract, article.title)
    IN  _apply_max_chars(
            [title |-> article.title, summary |-> parsed.summary,
             sections |-> parsed.sections,
             source_urls |-> IF article.url # "" THEN <<article.url>> ELSE <<>>,
             source |-> Configured[k].name],
            max_chars)

\* C29: a payload does not tell how a source failed: the not-found payload
\* is fixed by the topic and the language, and a success payload by the
\* arguments and the responses of the source that succeeded, whatever the
\* searches and fetches of the sources before it returned.
C29_PayloadHidesFailures ==
    /\ IsNotFound =>
          ret[1] = [error |-> <<"not found", topic>>, topic |-> topic,
                    searched_sources |-> ConfiguredNames]
    /\ IsSuccess => ret[1] = PayloadOfSource(AcceptedIndex)

\* Three sources that failed in three ways: a timeout of the search, an
\* HTTP error of the fetch, an extract without usable text.
C29_Witness ==
    /\ language = "en"
    /\ IsNotFound
    /\ searchResp[1][1].kind = "timeout"
    /\ SearchHit(2) /\ fetchResp[2][1].kind = "http_error"
    /\ SearchHit(3) /\ FetchedExtract(3) # <<>>

----------------------------------------------------------------------------
(* What the budget leaves alone                                            *)

\* The text is the content or a prefix of it followed by the ellipsis.
KeptOrCut(text, content) ==
    text = content \/ CutTo(text, content, Len(content))

\* C30: the budget changes nothing but the summary and the section
\* contents: the fields, the title, the source URLs, the source name, the
\* number and the order of the sections and their titles are as before;
\* every text of the result is the text it comes from or a prefix of it
\* followed by the ellipsis; a non-empty section content stays non-empty,
\* and a usable document stays usable.
C30_BudgetFrame ==
    bout # None =>
        /\ DOMAIN bout[1] = DOMAIN bdoc
        /\ bout[1].title = bdoc.title
        /\ bout[1].source_urls = bdoc.source_urls
        /\ bout[1].source = bdoc.source
        /\ KeptOrCut(bout[1].summary, bdoc.summary)
        /\ Len(bout[1].sections) = Len(bdoc.sections)
        /\ \A k \in 1..Len(bdoc.sections) :
              /\ DOMAIN bout[1].sections[k] = DOMAIN bdoc.sections[k]
              /\ bout[1].sections[k].title = bdoc.sections[k].title
              /\ KeptOrCut(bout[1].sections[k].content, bdoc.sections[k].content)
              /\ bdoc.sections[k].content # <<>> =>
                    bout[1].sections[k].content # <<>>
        /\ Usable(bdoc) => Usable(bout[1])

\* A document whose summary and two different sections are all cut.
C30_Witness ==
    /\ bout # None
    /\ TruncatedParts(bdoc, bout[1]) = 3
    /\ bdoc.sections[1] # bdoc.sections[2]
    /\ bout[1].sections[1] # bout[1].sections[2]

====
